---- MODULE Spec2Model ----
(***************************************************************************)
(* Model of the link-shortener server: the ShortLink collection, the       *)
(* repository, the link service, the DTO validation done by the global     *)
(* ValidationPipe and the three HTTP endpoints; and of the web client:     *)
(* its validator, which checks an input before a request is sent, the      *)
(* useLinkShortener hook and the ClipboardButton.  The callbacks passed    *)
(* to the hook and to the button are given and return normally.            *)
(*                                                                         *)
(* Text values (short codes, aliases, short URLs) are sequences of         *)
(* one-character strings, so that length, character class, substring and   *)
(* concatenation are computed as the code computes them.                   *)
(*                                                                         *)
(* Every request runs in a request slot.  A slot's steps are the segments  *)
(* of the async handler between two awaits: the store is read or written   *)
(* at one point of each segment, and segments of different requests        *)
(* interleave freely.  Store reads and writes of createShortLink,          *)
(* getLongUrl and getShortLinkDetails are taken to succeed; the click      *)
(* increment, whose failure the code handles, may fail.                    *)
(***************************************************************************)
EXTENDS Integers, Sequences, FiniteSets, TLC

\* ------------------------------------------------------------------ bounds

NumSlots == 2        \* request slots: requests that can be in flight together
MaxRequests == 3     \* requests started in one behaviour
MaxDocs == 2         \* documents the collection can hold
SeqRequests == 2     \* requests started in one behaviour of SpecInputs
RandBits == 12       \* Math.random() is sampled as k / 2^RandBits
DetailRequests == 4  \* requests started in one behaviour of SpecDetails
MaxCalls == 2        \* direct calls of incrementClicks in one behaviour of SpecRepo
MaxHookCalls == 3    \* calls of the hook's createShortLink in one behaviour of SpecHook
MaxClicks == 3       \* clicks on the ClipboardButton in one behaviour of SpecButton
SuccessDuration == 2 \* successDuration, in ticks of the clock

\* ------------------------------------------------------------------ text

Lower == {"a","b","c","d","e","f","g","h","i","j","k","l","m",
          "n","o","p","q","r","s","t","u","v","w","x","y","z"}
Upper == {"A","B","C","D","E","F","G","H","I","J","K","L","M",
          "N","O","P","Q","R","S","T","U","V","W","X","Y","Z"}
Digits == {"0","1","2","3","4","5","6","7","8","9"}

Repeat(c, n) == [i \in 1..n |-> c]

Min(a, b) == IF a < b THEN a ELSE b
Max(a, b) == IF a > b THEN a ELSE b

\* String.prototype.substring(start, end) for 0 <= start <= end
Substring(s, start, end) == SubSeq(s, Min(start, Len(s)) + 1, Min(end, Len(s)))

\* ------------------------------------------------------------------ short-code generator

Base36Digits == <<"0","1","2","3","4","5","6","7","8","9",
                  "a","b","c","d","e","f","g","h","i","j","k","l","m",
                  "n","o","p","q","r","s","t","u","v","w","x","y","z">>

RandDenom == 2 ^ RandBits

\* the values k / 2^RandBits of Math.random() the model draws: 0, the
\* smallest and the largest positive value, and the multiples of 1/8
RandomDraws == {0, 1, RandDenom - 1} \cup {j * (RandDenom \div 8) : j \in 1..7}

\* the two of them drawn where requests run concurrently: 1/2^RandBits and 1/2
CoreDraws == {1, RandDenom \div 2}

NoDraw == -1

\* the base-36 digits of the fraction n/d, 0 <= n < d, d a power of two
RECURSIVE FractionDigits36(_, _)
FractionDigits36(n, d) ==
    IF n = 0 THEN <<>>
    ELSE <<Base36Digits[((n * 36) \div d) + 1]>> \o FractionDigits36((n * 36) % d, d)

\* Number.prototype.toString(36) of k / 2^RandBits
ToString36(k) ==
    IF k = 0 THEN <<"0">> ELSE <<"0", ".">> \o FractionDigits36(k, RandDenom)

\* Math.random().toString(36).substring(2, 8), Math.random() = k / 2^RandBits
GenerateShortCode(k) == Substring(ToString36(k), 2, 8)

\* ------------------------------------------------------------------ DTO validation

MinLength == 3
MaxLength == 50

AliasChars == Lower \cup Upper \cup Digits \cup {"-", "_"}

\* /^[a-zA-Z0-9-_]+$/
MatchesCodePattern(s) == Len(s) >= 1 /\ \A i \in 1..Len(s) : s[i] \in AliasChars

\* a customAlias is absent (undefined) or a text
Absent == [present |-> FALSE, value |-> <<>>]
Alias(s) == [present |-> TRUE, value |-> s]

\* mutant: the length of a customAlias has no upper limit
CustomAliasErrorsNoMax(a) ==
    IF ~a.present THEN {}
    ELSE (IF Len(a.value) >= MinLength THEN {} ELSE {"customAlias minLength"})
         \cup (IF MatchesCodePattern(a.value) THEN {} ELSE {"customAlias matches"})

\* @IsOptional @IsString @MinLength(3) @MaxLength(50) @Matches(...): the
\* constraints a customAlias violates; none is checked when it is absent
CustomAliasErrors(a) ==
    IF ~a.present THEN {}
    ELSE (IF Len(a.value) >= MinLength THEN {} ELSE {"customAlias minLength"})
         \cup (IF Len(a.value) <= MaxLength THEN {} ELSE {"customAlias maxLength"})
         \cup (IF MatchesCodePattern(a.value) THEN {} ELSE {"customAlias matches"})

\* a longUrl as validator.js sees it: the text before "://" and the host's labels
Url(protocol, host) == [protocol |-> protocol, host |-> host]
NoUrl == Url("", <<>>)

UrlProtocols == {"http", "https", "ftp"}

\* mutant: @IsUrl() without require_protocol
ValidLongUrlProtocolOptional(u) ==
    /\ u.protocol = "" \/ u.protocol \in UrlProtocols
    /\ Len(u.host) >= 2

\* @IsUrl({ require_protocol: true }): a protocol is required and is one of
\* http, https, ftp; a host is required and has a top-level domain
ValidLongUrl(u) ==
    /\ u.protocol # ""
    /\ u.protocol \in UrlProtocols
    /\ Len(u.host) >= 2

\* the constraints of CreateShortLinkDto a body violates
CreateDtoErrors(dto) ==
    (IF ValidLongUrl(dto.longUrl) THEN {} ELSE {"longUrl isUrl"})
    \cup CustomAliasErrors(dto.customAlias)

ValidateCreateDto(dto) == CreateDtoErrors(dto) = {}

ParamMinLength == 3
ParamMaxLength == 50

\* mutant: the parameter has no minimum length
ParamDtoErrorsNoMin(code) ==
    (IF Len(code) <= ParamMaxLength THEN {} ELSE {"shortCode maxLength"})
    \cup (IF MatchesCodePattern(code) THEN {} ELSE {"shortCode matches"})

\* ShortCodeParamDto: @IsString @MinLength(3) @MaxLength(50) @Matches(...)
ParamDtoErrors(code) ==
    (IF Len(code) >= ParamMinLength THEN {} ELSE {"shortCode minLength"})
    \cup (IF Len(code) <= ParamMaxLength THEN {} ELSE {"shortCode maxLength"})
    \cup (IF MatchesCodePattern(code) THEN {} ELSE {"shortCode matches"})

ValidateParamDto(code) == ParamDtoErrors(code) = {}

\* ------------------------------------------------------------------ client validator

\* z.string().url(): the text parses with new URL(): it has a scheme, and a
\* host if the scheme is http, https or ftp
ClientValidUrl(u) ==
    /\ u.protocol # ""
    /\ u.protocol \in UrlProtocols => u.host # <<>>

\* longUrl: z.string().url(...).min(1, ...): the messages of the failed checks
ClientLongUrlIssues(u) ==
    (IF ClientValidUrl(u) THEN <<>>
     ELSE <<"Please provide a valid URL with http:// or https://">>)
    \o (IF u # NoUrl THEN <<>> ELSE <<"URL is required">>)

\* mutant: the client takes an alias of one character
ClientAliasIssuesMinOne(a) ==
    IF ~a.present THEN <<>>
    ELSE (IF Len(a.value) >= 1 THEN <<>>
          ELSE <<"Custom alias must be at least 3 characters long">>)
         \o (IF Len(a.value) <= 50 THEN <<>>
             ELSE <<"Custom alias must not exceed 50 characters">>)
         \o (IF MatchesCodePattern(a.value) THEN <<>>
             ELSE <<"Custom alias can only contain letters, numbers, hyphens, and underscores">>)

\* customAlias: z.string().min(3, ...).max(50, ...).regex(...).optional()
ClientAliasIssues(a) ==
    IF ~a.present THEN <<>>
    ELSE (IF Len(a.value) >= 3 THEN <<>>
          ELSE <<"Custom alias must be at least 3 characters long">>)
         \o (IF Len(a.value) <= 50 THEN <<>>
             ELSE <<"Custom alias must not exceed 50 characters">>)
         \o (IF MatchesCodePattern(a.value) THEN <<>>
             ELSE <<"Custom alias can only contain letters, numbers, hyphens, and underscores">>)

\* createShortLinkSchema.safeParse(input).error.errors
SchemaIssues(input) ==
    ClientLongUrlIssues(input.longUrl) \o ClientAliasIssues(input.customAlias)

\* validateCreateShortLink(input): success, or the first issue's message
ValidateCreateShortLink(input) ==
    IF SchemaIssues(input) = <<>>
    THEN [success |-> TRUE, error |-> ""]
    ELSE [success |-> FALSE, error |-> SchemaIssues(input)[1]]

\* ------------------------------------------------------------------ inputs

Abc == <<"a", "b", "c">>
Long50 == <<"A", "z", "0", "-", "_">> \o Repeat("x", MaxLength - 5)
Long51 == Repeat("x", MaxLength + 1)

AliasInputs ==
    {Absent, Alias(<<>>), Alias(<<"a", "b">>), Alias(Abc), Alias(<<"a", " ", "c">>),
     Alias(<<"a", "b", "!">>), Alias(Long50), Alias(Long51)}

UrlA == Url("https", <<"example", "com">>)
UrlB == Url("http", <<"example", "org">>)

\* also: not-a-url, example.com, javascript:, https:// and https://localhost
LongUrlInputs ==
    {UrlA, UrlB, Url("", <<"not-a-url">>), Url("", <<"example", "com">>),
     Url("javascript", <<>>), Url("https", <<>>), Url("https", <<"localhost">>)}

\* the :shortCode path parameters requested
ParamInputs ==
    {Abc, Long50, Long51, <<"a", "b">>, <<"a", "b", "!">>}
        \cup {GenerateShortCode(k) : k \in RandomDraws \ {0}}

\* those requested where requests run concurrently
CoreParamInputs == {Abc} \cup {GenerateShortCode(k) : k \in CoreDraws}

\* ------------------------------------------------------------------ state

Slots == 1..NumSlots
DocIds == 1..MaxDocs

VARIABLES
    store,      \* the shortLinks collection: document id -> ShortLink or NoDoc
    pc,         \* slot -> where its request stands
    req,        \* slot -> the request it handles
    resp,       \* slot -> the response it sent
    ops,        \* slot -> store lookups and writes its request has made
    tasks,      \* the incrementClicks calls started, in order of start
    started,    \* requests received so far
    client,     \* the web client's form: its input and the validator's result
    hook,       \* useLinkShortener: isSubmitting and the createShortLink calls made
    button      \* ClipboardButton: isCopied, the disabled prop, writes and timers

vars == <<store, pc, req, resp, ops, tasks, started, client, hook, button>>

ShortLink(longUrl, shortCode, createdAt, clicks, creatorIp) ==
    [longUrl |-> longUrl, shortCode |-> shortCode, createdAt |-> createdAt,
     clicks |-> clicks, creatorIp |-> creatorIp]

NoDoc == [longUrl |-> NoUrl, shortCode |-> <<>>, createdAt |-> -1,
          clicks |-> -1, creatorIp |-> ""]

\* seen: the redirects of the requested code already answered with 302 when
\* the request arrived; applied: the increments of the requested code that
\* had been applied when a details request made its lookup
NoReq == [kind |-> "none", longUrl |-> NoUrl, customAlias |-> Absent, ip |-> "",
          draw |-> NoDraw, shortCode |-> <<>>, shortLink |-> NoDoc, seen |-> 0,
          applied |-> 0]

NoResp == [status |-> 0, shortCode |-> <<>>, longUrl |-> NoUrl, shortUrl |-> <<>>,
           createdAt |-> -1, clicks |-> -1, errors |-> {}]

NoOps == [finds |-> 0, adds |-> 0]

\* useState(false), and no call of createShortLink yet
NoHook == [isSubmitting |-> FALSE, calls |-> <<>>]

\* useState(false); no click, no clipboard write, no timer, the clock at 0
NoButton == [isCopied |-> FALSE, disabled |-> FALSE, clicked |-> 0, writes |-> <<>>,
             timers |-> <<>>, onCopySuccess |-> 0, onCopyError |-> 0, now |-> 0]

\* the form before anything is entered
NoClient == [stage |-> "idle", longUrl |-> NoUrl, customAlias |-> Absent,
             success |-> FALSE, error |-> ""]

Init ==
    /\ store = [d \in DocIds |-> NoDoc]
    /\ pc = [p \in Slots |-> "idle"]
    /\ req = [p \in Slots |-> NoReq]
    /\ resp = [p \in Slots |-> NoResp]
    /\ ops = [p \in Slots |-> NoOps]
    /\ tasks = <<>>
    /\ started = 0
    /\ client = NoClient
    /\ hook = NoHook
    /\ button = NoButton

\* ------------------------------------------------------------------ repository

\* db.shortLinks.query(($) => $.field('shortCode').eq(shortCode)): the ids of
\* the matching documents; the results come ordered by document id
Query(s, shortCode) == {d \in DocIds : s[d] # NoDoc /\ s[d].shortCode = shortCode}

First(ids) == CHOOSE d \in ids : \A e \in ids : d <= e

\* mutant: the lookup never finds a record
FindByShortCodeMiss(s, shortCode) == NoDoc

\* results.length > 0 ? results[0].data : null
FindByShortCode(s, shortCode) ==
    IF Query(s, shortCode) # {} THEN s[First(Query(s, shortCode))] ELSE NoDoc

\* mutant: adding a document resets the counters of the others
CreateResetsClicks(s, d, data) ==
    [e \in DocIds |->
        IF e = d THEN data
        ELSE IF s[e] = NoDoc THEN NoDoc ELSE [s[e] EXCEPT !.clicks = 0]]

\* mutant: the store refuses a second document with the same shortCode
CreateIfAbsent(s, d, data) ==
    IF Query(s, data.shortCode) # {} THEN s ELSE [s EXCEPT ![d] = data]

\* db.shortLinks.add(data) under the auto-generated id d
Create(s, d, data) == [s EXCEPT ![d] = data]

\* mutant: the increment is applied twice
UpdateIncrementTwice(s, d) == [s EXCEPT ![d].clicks = @ + 2]

\* mutant: the update writes the count read when the link was created, plus 1
UpdateIncrementStale(s, d) == [s EXCEPT ![d].clicks = 1]

\* mutant: the update also stamps the record
UpdateIncrementTouches(s, d) ==
    [s EXCEPT ![d].clicks = @ + 1, ![d].createdAt = @ + 1]

\* db.shortLinks.update(id, ($) => ({ clicks: $.increment(1) }))
UpdateIncrement(s, d) == [s EXCEPT ![d].clicks = @ + 1]

\* ------------------------------------------------------------------ service

\* new Date(): the clock advances with every document written
Now(s) == Cardinality({d \in DocIds : s[d] # NoDoc})

BaseUrl == "http://localhost:3000"

\* mutant: the summary reports no clicks
BuildResponseNoClicks(status, shortLink) ==
    [NoResp EXCEPT
     !.status = status,
     !.shortCode = shortLink.shortCode,
     !.longUrl = shortLink.longUrl,
     !.shortUrl = <<BaseUrl, "/">> \o shortLink.shortCode,
     !.createdAt = shortLink.createdAt,
     !.clicks = 0]

\* mutant: the summary carries the creator's address
BuildResponseWithIp(status, shortLink) ==
    [NoResp EXCEPT
     !.status = status,
     !.shortCode = shortLink.shortCode,
     !.longUrl = shortLink.longUrl,
     !.shortUrl = <<BaseUrl, "/">> \o shortLink.shortCode,
     !.createdAt = shortLink.createdAt,
     !.clicks = shortLink.clicks,
     !.errors = {shortLink.creatorIp}]

\* mutant: the short URL lacks the separator
BuildResponseNoSlash(status, shortLink) ==
    [NoResp EXCEPT
     !.status = status,
     !.shortCode = shortLink.shortCode,
     !.longUrl = shortLink.longUrl,
     !.shortUrl = <<BaseUrl>> \o shortLink.shortCode,
     !.createdAt = shortLink.createdAt,
     !.clicks = shortLink.clicks]

BuildResponse(status, shortLink) ==
    [NoResp EXCEPT
     !.status = status,
     !.shortCode = shortLink.shortCode,
     !.longUrl = shortLink.longUrl,
     !.shortUrl = <<BaseUrl, "/">> \o shortLink.shortCode,
     !.createdAt = shortLink.createdAt,
     !.clicks = shortLink.clicks]

ErrorResponse(status, errors) == [NoResp EXCEPT !.status = status, !.errors = errors]

\* res.redirect(HttpStatus.FOUND, longUrl)
RedirectResponse(longUrl) == [NoResp EXCEPT !.status = 302, !.longUrl = longUrl]

\* createDto.customAlias || this.generateShortCode()
ResolveShortCode(customAlias, draw) ==
    IF customAlias.present /\ customAlias.value # <<>>
    THEN customAlias.value
    ELSE GenerateShortCode(draw)

Task(code, stage, doc) == [code |-> code, stage |-> stage, doc |-> doc]

\* ------------------------------------------------------------------ requests

\* the create requests submitted where requests run concurrently: one client
\* submits UrlA with the alias "abc", with a two-character alias and without
\* an alias, another submits UrlB with the alias "abc"
CoreCreateInputs ==
    {[longUrl |-> UrlA, customAlias |-> a, ip |-> "10.0.0.1"] :
        a \in {Absent, Alias(Abc), Alias(<<"a", "b">>)}}
    \cup {[longUrl |-> UrlB, customAlias |-> Alias(Abc), ip |-> "10.0.0.2"]}

\* the create requests submitted one at a time: also every other customAlias
\* and every other longUrl
CreateInputs ==
    CoreCreateInputs
    \cup {[longUrl |-> UrlA, customAlias |-> a, ip |-> "10.0.0.1"] : a \in AliasInputs}
    \cup {[longUrl |-> u, customAlias |-> Absent, ip |-> "10.0.0.1"] : u \in LongUrlInputs}

Free(p) == pc[p] \in {"idle", "done"}

\* a request is handled in the lowest free slot
CanStart(p) ==
    /\ Free(p)
    /\ \A q \in Slots : q < p => ~Free(q)

\* the incrementClicks calls started for a code: one for every 302 answered
TasksOf(shortCode) == {i \in DOMAIN tasks : tasks[i].code = shortCode}

\* those that have run to their end
Applied(c) == {i \in TasksOf(c) : tasks[i].stage = "done"}

Request(kind, longUrl, customAlias, ip, draw, shortCode) ==
    [NoReq EXCEPT !.kind = kind, !.longUrl = longUrl, !.customAlias = customAlias,
                  !.ip = ip, !.draw = draw, !.shortCode = shortCode,
                  !.seen = Cardinality(TasksOf(shortCode))]

\* what is left of a request once its handler has returned
Finished(r) == [NoReq EXCEPT !.kind = r.kind, !.shortCode = r.shortCode, !.draw = r.draw]

\* the values generateShortCode may draw when createShortLink evaluates
\* customAlias || generateShortCode(): none when the alias is truthy
DrawsFor(customAlias) ==
    IF customAlias.present /\ customAlias.value # <<>> THEN {NoDraw} ELSE RandomDraws

\* POST /shorten with body and address in, generateShortCode drawing k: the
\* ValidationPipe checks the body; a valid body reaches
\* LinkShortenerService.createShortLink, which resolves the short code and
\* starts the lookup
PostShortenWith(p, in, k) ==
    /\ CanStart(p)
    /\ started' = started + 1
    /\ IF ValidateCreateDto([longUrl |-> in.longUrl, customAlias |-> in.customAlias])
       THEN /\ k \in DrawsFor(in.customAlias)
            /\ req' = [req EXCEPT ![p] =
                        Request("create", in.longUrl, in.customAlias, in.ip, k,
                                ResolveShortCode(in.customAlias, k))]
            /\ pc' = [pc EXCEPT ![p] = "create_find"]
            /\ resp' = [resp EXCEPT ![p] = NoResp]
       ELSE /\ k = NoDraw
            /\ req' = [req EXCEPT ![p] = Finished(Request("create", NoUrl, Absent, "", NoDraw, <<>>))]
            /\ pc' = [pc EXCEPT ![p] = "done"]
            /\ resp' = [resp EXCEPT ![p] =
                          ErrorResponse(400, CreateDtoErrors(
                              [longUrl |-> in.longUrl, customAlias |-> in.customAlias]))]
    /\ ops' = [ops EXCEPT ![p] = NoOps]
    /\ UNCHANGED <<store, tasks, client, hook, button>>

PostShorten(p) ==
    /\ started < MaxRequests
    /\ \E in \in CoreCreateInputs : \E k \in CoreDraws \cup {NoDraw} : PostShortenWith(p, in, k)

\* mutant: Conflict only when the record found has the same longUrl
CreateFindSameUrl(p) ==
    /\ pc[p] = "create_find"
    /\ ops' = [ops EXCEPT ![p].finds = @ + 1]
    /\ IF FindByShortCode(store, req[p].shortCode).longUrl = req[p].longUrl
       THEN /\ resp' = [resp EXCEPT ![p] = ErrorResponse(409, {})]
            /\ pc' = [pc EXCEPT ![p] = "done"]
            /\ req' = [req EXCEPT ![p] = Finished(req[p])]
       ELSE /\ req' = [req EXCEPT ![p].shortLink =
                          ShortLink(req[p].longUrl, req[p].shortCode, Now(store), 0, req[p].ip)]
            /\ pc' = [pc EXCEPT ![p] = "create_add"]
            /\ resp' = resp
    /\ UNCHANGED <<store, tasks, started, client, hook, button>>

\* mutant: only a custom alias is checked against the store
CreateFindAliasOnly(p) ==
    /\ pc[p] = "create_find"
    /\ ops' = [ops EXCEPT ![p].finds = @ + 1]
    /\ IF req[p].customAlias.present /\ FindByShortCode(store, req[p].shortCode) # NoDoc
       THEN /\ resp' = [resp EXCEPT ![p] = ErrorResponse(409, {})]
            /\ pc' = [pc EXCEPT ![p] = "done"]
            /\ req' = [req EXCEPT ![p] = Finished(req[p])]
       ELSE /\ req' = [req EXCEPT ![p].shortLink =
                          ShortLink(req[p].longUrl, req[p].shortCode, Now(store), 0, req[p].ip)]
            /\ pc' = [pc EXCEPT ![p] = "create_add"]
            /\ resp' = resp
    /\ UNCHANGED <<store, tasks, started, client, hook, button>>

\* const existing = await this.repository.findByShortCode(shortCode):
\* Conflict if a record is found, otherwise the record is built and the write
\* is started
CreateFind(p) ==
    /\ pc[p] = "create_find"
    /\ ops' = [ops EXCEPT ![p].finds = @ + 1]
    /\ IF FindByShortCode(store, req[p].shortCode) # NoDoc
       THEN /\ resp' = [resp EXCEPT ![p] = ErrorResponse(409, {})]
            /\ pc' = [pc EXCEPT ![p] = "done"]
            /\ req' = [req EXCEPT ![p] = Finished(req[p])]
       ELSE /\ req' = [req EXCEPT ![p].shortLink =
                          ShortLink(req[p].longUrl, req[p].shortCode, Now(store), 0, req[p].ip)]
            /\ pc' = [pc EXCEPT ![p] = "create_add"]
            /\ resp' = resp
    /\ UNCHANGED <<store, tasks, started, client, hook, button>>

\* const created = await this.repository.create(shortLink);
\* return this.buildResponse(created)
CreateAdd(p) ==
    /\ pc[p] = "create_add"
    /\ \E d \in DocIds :
        /\ store[d] = NoDoc
        /\ store' = Create(store, d, req[p].shortLink)
    /\ ops' = [ops EXCEPT ![p].adds = @ + 1]
    /\ resp' = [resp EXCEPT ![p] = BuildResponse(201, req[p].shortLink)]
    /\ req' = [req EXCEPT ![p] = Finished(req[p])]
    /\ pc' = [pc EXCEPT ![p] = "done"]
    /\ UNCHANGED <<tasks, started, client, hook, button>>

\* a request with a :shortCode parameter: the ValidationPipe checks the
\* parameter; a valid one reaches the service, which starts the lookup
StartLookup(p, kind, code, find) ==
    /\ CanStart(p)
    /\ started' = started + 1
    /\ IF ValidateParamDto(code)
       THEN /\ req' = [req EXCEPT ![p] = Request(kind, NoUrl, Absent, "", NoDraw, code)]
            /\ pc' = [pc EXCEPT ![p] = find]
            /\ resp' = [resp EXCEPT ![p] = NoResp]
       ELSE /\ req' = [req EXCEPT ![p] = Finished(Request(kind, NoUrl, Absent, "", NoDraw, <<>>))]
            /\ pc' = [pc EXCEPT ![p] = "done"]
            /\ resp' = [resp EXCEPT ![p] = ErrorResponse(400, ParamDtoErrors(code))]
    /\ ops' = [ops EXCEPT ![p] = NoOps]
    /\ UNCHANGED <<store, tasks, client, hook, button>>

\* GET /:shortCode
GetRedirectWith(p, code) == StartLookup(p, "redirect", code, "redirect_find")

GetRedirect(p) == started < MaxRequests /\ \E code \in CoreParamInputs : GetRedirectWith(p, code)

\* mutant: the increment is started before the record is looked at
StartedIncrementsAlways(shortLink, shortCode) == <<Task(shortCode, "query", 0)>>

\* the incrementClicks calls getLongUrl starts for the record it found
StartedIncrements(shortLink, shortCode) ==
    IF shortLink = NoDoc THEN <<>> ELSE <<Task(shortCode, "query", 0)>>

\* getLongUrl after its lookup: Not-Found if no record; otherwise
\* incrementClicks is started, not awaited, and the longUrl is returned
RedirectFind(p) ==
    /\ pc[p] = "redirect_find"
    /\ ops' = [ops EXCEPT ![p].finds = @ + 1]
    /\ LET shortLink == FindByShortCode(store, req[p].shortCode) IN
        /\ tasks' = tasks \o StartedIncrements(shortLink, req[p].shortCode)
        /\ resp' = [resp EXCEPT ![p] =
                      IF shortLink = NoDoc THEN ErrorResponse(404, {})
                      ELSE RedirectResponse(shortLink.longUrl)]
    /\ req' = [req EXCEPT ![p] = Finished(req[p])]
    /\ pc' = [pc EXCEPT ![p] = "done"]
    /\ UNCHANGED <<store, started, client, hook, button>>

\* GET /api/links/:shortCode
GetLinkDetailsWith(p, code) == StartLookup(p, "details", code, "details_find")

GetLinkDetails(p) == started < MaxRequests /\ \E code \in CoreParamInputs : GetLinkDetailsWith(p, code)

\* mutant: reading the details starts a click increment
DetailsFindStartsIncrement(p) ==
    /\ pc[p] = "details_find"
    /\ ops' = [ops EXCEPT ![p].finds = @ + 1]
    /\ LET shortLink == FindByShortCode(store, req[p].shortCode) IN
        /\ resp' = [resp EXCEPT ![p] =
                      IF shortLink = NoDoc THEN ErrorResponse(404, {})
                      ELSE BuildResponse(200, shortLink)]
        /\ tasks' = tasks \o StartedIncrements(shortLink, req[p].shortCode)
    /\ req' = [req EXCEPT ![p] =
                [Finished(req[p]) EXCEPT !.applied = Cardinality(Applied(req[p].shortCode))]]
    /\ pc' = [pc EXCEPT ![p] = "done"]
    /\ UNCHANGED <<store, started, client, hook, button>>

\* mutant: reading the details counts as a click
DetailsFindCounts(p) ==
    /\ pc[p] = "details_find"
    /\ ops' = [ops EXCEPT ![p].finds = @ + 1]
    /\ LET shortLink == FindByShortCode(store, req[p].shortCode) IN
        /\ resp' = [resp EXCEPT ![p] =
                      IF shortLink = NoDoc THEN ErrorResponse(404, {})
                      ELSE BuildResponse(200, shortLink)]
        /\ store' = IF shortLink = NoDoc THEN store
                    ELSE UpdateIncrement(store, First(Query(store, req[p].shortCode)))
    /\ req' = [req EXCEPT ![p] =
                [Finished(req[p]) EXCEPT !.applied = Cardinality(Applied(req[p].shortCode))]]
    /\ pc' = [pc EXCEPT ![p] = "done"]
    /\ UNCHANGED <<tasks, started, client, hook, button>>

\* mutant: no Not-Found, a summary of whatever the lookup returned
DetailsFindNoThrow(p) ==
    /\ pc[p] = "details_find"
    /\ ops' = [ops EXCEPT ![p].finds = @ + 1]
    /\ resp' = [resp EXCEPT ![p] =
                  BuildResponse(200, FindByShortCode(store, req[p].shortCode))]
    /\ req' = [req EXCEPT ![p] =
                [Finished(req[p]) EXCEPT !.applied = Cardinality(Applied(req[p].shortCode))]]
    /\ pc' = [pc EXCEPT ![p] = "done"]
    /\ UNCHANGED <<store, tasks, started, client, hook, button>>

\* getShortLinkDetails after its lookup
DetailsFind(p) ==
    /\ pc[p] = "details_find"
    /\ ops' = [ops EXCEPT ![p].finds = @ + 1]
    /\ LET shortLink == FindByShortCode(store, req[p].shortCode) IN
        resp' = [resp EXCEPT ![p] =
                    IF shortLink = NoDoc THEN ErrorResponse(404, {})
                    ELSE BuildResponse(200, shortLink)]
    /\ req' = [req EXCEPT ![p] =
                [Finished(req[p]) EXCEPT !.applied = Cardinality(Applied(req[p].shortCode))]]
    /\ pc' = [pc EXCEPT ![p] = "done"]
    /\ UNCHANGED <<store, tasks, started, client, hook, button>>

\* ------------------------------------------------------------------ incrementClicks

TaskIds == 1..Max(MaxRequests, DetailRequests)

\* mutant: incrementClicks returns after its query
IncQueryDrops(i) ==
    /\ i \in DOMAIN tasks
    /\ tasks[i].stage = "query"
    /\ tasks' = [tasks EXCEPT ![i] = Task(tasks[i].code, "done", 0)]
    /\ UNCHANGED <<store, pc, req, resp, ops, started, client, hook, button>>

\* mutant: incrementClicks rejects when no record has the code
IncQueryThrows(i) ==
    /\ i \in DOMAIN tasks
    /\ tasks[i].stage = "query"
    /\ LET results == Query(store, tasks[i].code) IN
        tasks' = [tasks EXCEPT ![i] =
                    IF results # {} THEN Task(tasks[i].code, "update", First(results))
                    ELSE Task(tasks[i].code, "failed", 0)]
    /\ UNCHANGED <<store, pc, req, resp, ops, started, client, hook, button>>

\* incrementClicks after its query: the first result is the document to
\* update; nothing to do when there is no result
IncQuery(i) ==
    /\ i \in DOMAIN tasks
    /\ tasks[i].stage = "query"
    /\ LET results == Query(store, tasks[i].code) IN
        tasks' = [tasks EXCEPT ![i] =
                    IF results # {} THEN Task(tasks[i].code, "update", First(results))
                    ELSE Task(tasks[i].code, "done", 0)]
    /\ UNCHANGED <<store, pc, req, resp, ops, started, client, hook, button>>

\* the atomic increment is applied by the store
IncUpdate(i) ==
    /\ i \in DOMAIN tasks
    /\ tasks[i].stage = "update"
    /\ store' = UpdateIncrement(store, tasks[i].doc)
    /\ tasks' = [tasks EXCEPT ![i].stage = "done"]
    /\ UNCHANGED <<pc, req, resp, ops, started, client, hook, button>>

\* mutant: a failed increment fails the redirect that started it
IncFailSurfaces(i) ==
    /\ i \in DOMAIN tasks
    /\ tasks[i].stage \in {"query", "update"}
    /\ tasks' = [tasks EXCEPT ![i].stage = "failed"]
    /\ resp' = [p \in Slots |->
                IF resp[p].status = 302 THEN ErrorResponse(500, {}) ELSE resp[p]]
    /\ UNCHANGED <<store, pc, req, ops, started, client, hook, button>>

\* the query or the update rejects: .catch logs the error
IncFail(i) ==
    /\ i \in DOMAIN tasks
    /\ tasks[i].stage \in {"query", "update"}
    /\ tasks' = [tasks EXCEPT ![i].stage = "failed"]
    /\ UNCHANGED <<store, pc, req, resp, ops, started, client, hook, button>>

\* ------------------------------------------------------------------ web client

\* the inputs createShortLink of the hook is called with
FormInputs ==
    {[longUrl |-> u, customAlias |-> a] : u \in LongUrlInputs, a \in AliasInputs}

\* the hook's createShortLink is called with an input
ClientCall ==
    /\ client.stage \in {"idle", "validated"}
    /\ \E in \in FormInputs :
        client' = [NoClient EXCEPT !.stage = "called", !.longUrl = in.longUrl,
                                   !.customAlias = in.customAlias]
    /\ UNCHANGED <<store, pc, req, resp, ops, tasks, started, hook, button>>

\* const validation = validateCreateShortLink({ longUrl, customAlias })
ClientValidate ==
    /\ client.stage = "called"
    /\ LET validation == ValidateCreateShortLink(
                            [longUrl |-> client.longUrl, customAlias |-> client.customAlias]) IN
        client' = [client EXCEPT !.stage = "validated",
                                 !.success = validation.success,
                                 !.error = validation.error]
    /\ UNCHANGED <<store, pc, req, resp, ops, tasks, started, hook, button>>

\* ------------------------------------------------------------------ useLinkShortener

\* sanitize: value.trim()
RECURSIVE TrimStart(_)
TrimStart(s) == IF s # <<>> /\ Head(s) = " " THEN TrimStart(Tail(s)) ELSE s

RECURSIVE TrimEnd(_)
TrimEnd(s) ==
    IF s # <<>> /\ s[Len(s)] = " " THEN TrimEnd(SubSeq(s, 1, Len(s) - 1)) ELSE s

Sanitize(s) == TrimEnd(TrimStart(s))

\* the inputs the hook's createShortLink is called with
HookInputs ==
    {[longUrl |-> u, customAlias |-> a] :
        u \in {UrlA, Url("", <<"not-a-url">>)},
        a \in {Absent, Alias(Abc), Alias(<<" ", "a", "b">>)}}

\* the body of the POST /shorten request the hook sends
RequestData(input) ==
    [longUrl |-> input.longUrl,
     customAlias |-> IF input.customAlias.present /\ input.customAlias.value # <<>>
                     THEN Alias(Sanitize(input.customAlias.value))
                     ELSE Absent]

NoData == [longUrl |-> NoUrl, customAlias |-> Absent]

\* how the request of linkShortenerService.createShortLink settles: the
\* server answers 201, it answers an error with a message, or no response
ApiOutcomes == {"created", "refused", "failed"}

ConflictMessage == "Short code is already in use. Please choose another alias."
FailedMessage == "Failed to create short link. Please try again."
SuccessMessage == "Link shortened successfully"

\* a call of createShortLink: the request data it sent (sent = 1) or none,
\* the callbacks it invoked with the last message, and what it returned
HookCall(input, stage, sent, onError, message, result) ==
    [input |-> input, stage |-> stage, sent |-> sent,
     data |-> IF sent = 1 THEN RequestData(input) ELSE NoData,
     outcome |-> "none", onSuccess |-> 0, onError |-> onError,
     message |-> message, result |-> result]

Pending(h) == {c \in DOMAIN h.calls : h.calls[c].stage = "pending"}

\* mutant: setIsSubmitting(true) and the request come before the validation
CreateShortLinkSubmitsFirst(input) ==
    /\ Len(hook.calls) < MaxHookCalls
    /\ hook' = [isSubmitting |-> TRUE,
                calls |-> Append(hook.calls,
                            HookCall(input, "pending", 1, 0, "", "none"))]
    /\ UNCHANGED <<store, pc, req, resp, ops, tasks, started, client, button>>

\* createShortLink(input) up to its await: validation, then either
\* onError and return null, or setIsSubmitting(true) and the request is sent
CreateShortLinkWith(input) ==
    /\ Len(hook.calls) < MaxHookCalls
    /\ LET validation == ValidateCreateShortLink(input) IN
        hook' = IF ~validation.success
                THEN [hook EXCEPT !.calls = Append(@,
                        HookCall(input, "returned", 0, 1, validation.error, "null"))]
                ELSE [isSubmitting |-> TRUE,
                      calls |-> Append(hook.calls,
                                  HookCall(input, "pending", 1, 0, "", "none"))]
    /\ UNCHANGED <<store, pc, req, resp, ops, tasks, started, client, button>>

CreateShortLink == \E input \in HookInputs : CreateShortLinkWith(input)

\* the request resolves: onSuccess, return link, finally setIsSubmitting(false)
ApiResolve(c) ==
    /\ c \in Pending(hook)
    /\ hook' = [isSubmitting |-> FALSE,
                calls |-> [hook.calls EXCEPT ![c] =
                  [@ EXCEPT !.stage = "returned", !.outcome = "created",
                            !.onSuccess = @ + 1, !.message = SuccessMessage,
                            !.result = "link"]]]
    /\ UNCHANGED <<store, pc, req, resp, ops, tasks, started, client, button>>

\* err?.response?.data?.message ?? 'Failed to create short link. ...'
ErrorMessage(outcome) == IF outcome = "refused" THEN ConflictMessage ELSE FailedMessage

\* mutant: the hook has no catch block, the error of the service goes through
ApiRejectUncaught(c) ==
    /\ c \in Pending(hook)
    /\ \E outcome \in ApiOutcomes \ {"created"} :
        hook' = [isSubmitting |-> FALSE,
                 calls |-> [hook.calls EXCEPT ![c] =
                   [@ EXCEPT !.stage = "returned", !.outcome = outcome,
                             !.result = "rejected"]]]
    /\ UNCHANGED <<store, pc, req, resp, ops, tasks, started, client, button>>

\* the request rejects (the service logs and rethrows): catch, onError,
\* return null, finally setIsSubmitting(false)
ApiReject(c) ==
    /\ c \in Pending(hook)
    /\ \E outcome \in ApiOutcomes \ {"created"} :
        hook' = [isSubmitting |-> FALSE,
                 calls |-> [hook.calls EXCEPT ![c] =
                   [@ EXCEPT !.stage = "returned", !.outcome = outcome,
                             !.onError = @ + 1, !.message = ErrorMessage(outcome),
                             !.result = "null"]]]
    /\ UNCHANGED <<store, pc, req, resp, ops, tasks, started, client, button>>

HookCalls == 1..MaxHookCalls

\* ------------------------------------------------------------------ ClipboardButton

\* the parent changes the disabled prop
SetDisabled ==
    /\ button' = [button EXCEPT !.disabled = ~@]
    /\ UNCHANGED <<store, pc, req, resp, ops, tasks, started, client, hook>>

\* handleCopy up to its await: return if disabled or isCopied, else
\* navigator.clipboard.writeText(text) is started
HandleCopy ==
    /\ button.clicked < MaxClicks
    /\ button' = IF button.disabled \/ button.isCopied
                 THEN [button EXCEPT !.clicked = @ + 1]
                 ELSE [button EXCEPT !.clicked = @ + 1, !.writes = Append(@, "pending")]
    /\ UNCHANGED <<store, pc, req, resp, ops, tasks, started, client, hook>>

\* a timer set by setTimeout: when it is due, and whether it has run
Timer(due) == [due |-> due, fired |-> FALSE]

Writes == 1..MaxClicks

\* mutant: a successful write sets no timer
WriteResolveNoTimer(w) ==
    /\ w \in DOMAIN button.writes
    /\ button.writes[w] = "pending"
    /\ button' = [button EXCEPT !.writes[w] = "copied", !.isCopied = TRUE,
                                !.onCopySuccess = @ + 1]
    /\ UNCHANGED <<store, pc, req, resp, ops, tasks, started, client, hook>>

\* writeText resolves: setIsCopied(true), onCopySuccess, setTimeout
WriteResolve(w) ==
    /\ w \in DOMAIN button.writes
    /\ button.writes[w] = "pending"
    /\ button' = [button EXCEPT !.writes[w] = "copied", !.isCopied = TRUE,
                                !.onCopySuccess = @ + 1,
                                !.timers = Append(@, Timer(button.now + SuccessDuration))]
    /\ UNCHANGED <<store, pc, req, resp, ops, tasks, started, client, hook>>

\* writeText rejects: catch, onCopyError
WriteReject(w) ==
    /\ w \in DOMAIN button.writes
    /\ button.writes[w] = "pending"
    /\ button' = [button EXCEPT !.writes[w] = "failed", !.onCopyError = @ + 1]
    /\ UNCHANGED <<store, pc, req, resp, ops, tasks, started, client, hook>>

Waiting(b) == {t \in DOMAIN b.timers : ~b.timers[t].fired}

\* the clock advances while a timer waits and none is due
Tick ==
    /\ Waiting(button) # {}
    /\ \A t \in Waiting(button) : button.timers[t].due > button.now
    /\ button' = [button EXCEPT !.now = @ + 1]
    /\ UNCHANGED <<store, pc, req, resp, ops, tasks, started, client, hook>>

\* the timer's callback runs when it is due: setIsCopied(false)
TimerFire(t) ==
    /\ t \in Waiting(button)
    /\ button.timers[t].due <= button.now
    /\ button' = [button EXCEPT !.timers[t].fired = TRUE, !.isCopied = FALSE]
    /\ UNCHANGED <<store, pc, req, resp, ops, tasks, started, client, hook>>

\* ------------------------------------------------------------------ specifications

Next ==
    \/ \E p \in Slots : PostShorten(p)
    \/ \E p \in Slots : CreateFind(p)
    \/ \E p \in Slots : CreateAdd(p)
    \/ \E p \in Slots : GetRedirect(p)
    \/ \E p \in Slots : RedirectFind(p)
    \/ \E p \in Slots : GetLinkDetails(p)
    \/ \E p \in Slots : DetailsFind(p)
    \/ \E i \in TaskIds : IncQuery(i)
    \/ \E i \in TaskIds : IncUpdate(i)
    \/ \E i \in TaskIds : IncFail(i)

Spec == Init /\ [][Next]_vars

\* Requests handled one at a time, in slot 1, over the full input sets.
PostShortenAny ==
    /\ started < SeqRequests
    /\ \E in \in CreateInputs : \E k \in RandomDraws \cup {NoDraw} : PostShortenWith(1, in, k)

GetRedirectAny ==
    /\ started < SeqRequests
    /\ \E code \in ParamInputs : GetRedirectWith(1, code)

GetLinkDetailsAny ==
    /\ started < SeqRequests
    /\ \E code \in ParamInputs : GetLinkDetailsWith(1, code)

NextInputs ==
    \/ PostShortenAny
    \/ CreateFind(1)
    \/ CreateAdd(1)
    \/ GetRedirectAny
    \/ RedirectFind(1)
    \/ GetLinkDetailsAny
    \/ DetailsFind(1)
    \/ \E i \in TaskIds : IncQuery(i)
    \/ \E i \in TaskIds : IncUpdate(i)
    \/ \E i \in TaskIds : IncFail(i)

SpecInputs == Init /\ [][NextInputs]_vars

\* createShortLink calls run one at a time: none starts while another is
\* between its start and its response.
CreateInFlight == \E q \in Slots : pc[q] \in {"create_find", "create_add"}

PostShortenSerial(p) == ~CreateInFlight /\ PostShorten(p)

NextSerial ==
    \/ \E p \in Slots : PostShortenSerial(p)
    \/ \E p \in Slots : CreateFind(p)
    \/ \E p \in Slots : CreateAdd(p)
    \/ \E p \in Slots : GetRedirect(p)
    \/ \E p \in Slots : RedirectFind(p)
    \/ \E p \in Slots : GetLinkDetails(p)
    \/ \E p \in Slots : DetailsFind(p)
    \/ \E i \in TaskIds : IncQuery(i)
    \/ \E i \in TaskIds : IncUpdate(i)
    \/ \E i \in TaskIds : IncFail(i)

SpecSerial == Init /\ [][NextSerial]_vars

\* Requests for the code "abc", where no redirect is issued from the moment
\* a details request is issued for as long as that request is remembered: no
\* redirect is issued between two details calls that are compared.
DetailsIssued == \E q \in Slots : req[q].kind = "details"

PostShortenAbc(p) ==
    /\ started < DetailRequests
    /\ \E in \in CoreCreateInputs :
        in.customAlias = Alias(Abc) /\ PostShortenWith(p, in, NoDraw)

GetRedirectBefore(p) ==
    /\ started < DetailRequests
    /\ ~DetailsIssued
    /\ GetRedirectWith(p, Abc)

GetLinkDetailsAbc(p) ==
    /\ started < DetailRequests
    /\ GetLinkDetailsWith(p, Abc)

NextDetails ==
    \/ \E p \in Slots : PostShortenAbc(p)
    \/ \E p \in Slots : CreateFind(p)
    \/ \E p \in Slots : CreateAdd(p)
    \/ \E p \in Slots : GetRedirectBefore(p)
    \/ \E p \in Slots : RedirectFind(p)
    \/ \E p \in Slots : GetLinkDetailsAbc(p)
    \/ \E p \in Slots : DetailsFind(p)
    \/ \E i \in TaskIds : IncQuery(i)
    \/ \E i \in TaskIds : IncUpdate(i)
    \/ \E i \in TaskIds : IncFail(i)

SpecDetails == Init /\ [][NextDetails]_vars

\* The repository's incrementClicks called directly, with any code, next to
\* creates of the alias "abc" that fill the collection.
PostShortenRepo(p) ==
    /\ started < MaxDocs
    /\ \E in \in CoreCreateInputs :
        in.customAlias = Alias(Abc) /\ PostShortenWith(p, in, NoDraw)

CallIncrementClicks(code) ==
    /\ Len(tasks) < MaxCalls
    /\ tasks' = Append(tasks, Task(code, "query", 0))
    /\ UNCHANGED <<store, pc, req, resp, ops, started, client, hook, button>>

NextRepo ==
    \/ \E p \in Slots : PostShortenRepo(p)
    \/ \E p \in Slots : CreateFind(p)
    \/ \E p \in Slots : CreateAdd(p)
    \/ \E code \in CoreParamInputs : CallIncrementClicks(code)
    \/ \E i \in TaskIds : IncQuery(i)
    \/ \E i \in TaskIds : IncUpdate(i)
    \/ \E i \in TaskIds : IncFail(i)

SpecRepo == Init /\ [][NextRepo]_vars

\* The calls of the client's validator, over every form input.
NextClient == ClientCall \/ ClientValidate

SpecClient == Init /\ [][NextClient]_vars

\* The calls of the hook's createShortLink, overlapping in every way; the
\* callbacks passed to the hook are given and return normally.
NextHook ==
    \/ CreateShortLink
    \/ \E c \in HookCalls : ApiResolve(c)
    \/ \E c \in HookCalls : ApiReject(c)

SpecHook == Init /\ [][NextHook]_vars

\* The clicks on one ClipboardButton, its clipboard writes settling in any
\* order, and its timers; the callbacks passed are given and return normally.
NextButton ==
    \/ SetDisabled
    \/ HandleCopy
    \/ \E w \in Writes : WriteResolve(w)
    \/ \E w \in Writes : WriteReject(w)
    \/ Tick
    \/ \E t \in Writes : TimerFire(t)

SpecButton == Init /\ [][NextButton]_vars

\* Time passes and the event loop runs the callback of every timer due.
FairButton ==
    /\ SpecButton
    /\ WF_vars(Tick)
    /\ \A t \in Writes : WF_vars(TimerFire(t))

\* The event loop runs every continuation whose promise has settled: a
\* started incrementClicks gets its query result, and then its update's.
FairSpec ==
    /\ Spec
    /\ \A i \in TaskIds : WF_vars(IncQuery(i) \/ IncFail(i))
    /\ \A i \in TaskIds : WF_vars(IncUpdate(i) \/ IncFail(i))

\* ------------------------------------------------------------------ claims

Docs(s) == {d \in DocIds : s[d] # NoDoc}

\* the documents of s whose shortCode is c, found without the repository
WithCode(s, c) == {d \in Docs(s) : s[d].shortCode = c}

\* C1: two concurrent createShortLink requests for the same custom alias can
\* both pass the pre-check and both write: a create that has passed its
\* pre-check adds its record whatever has been written since, so the records
\* with its shortCode become one more, and two records with the same
\* shortCode are reachable (C1_DuplicateAlias).
C1_CheckedCreateAlwaysWrites ==
    [][\A p \in Slots :
        CreateAdd(p) =>
            Cardinality(WithCode(store', req[p].shortCode))
                = Cardinality(WithCode(store, req[p].shortCode)) + 1]_vars

C1_DuplicateAlias ==
    \E d1, d2 \in Docs(store) :
        /\ d1 # d2
        /\ store[d1].shortCode = Abc
        /\ store[d2].shortCode = Abc

\* C2: when createShortLink calls run one at a time, no two stored records
\* have the same shortCode, whatever redirects and detail lookups interleave.
C2_UniqueShortCode ==
    \A d1, d2 \in Docs(store) : store[d1].shortCode = store[d2].shortCode => d1 = d2

\* a second create of the alias "abc" was refused and one record has it
C2_SecondCreateRefused ==
    \E p \in Slots :
        /\ pc[p] = "done"
        /\ req[p].kind = "create"
        /\ req[p].shortCode = Abc
        /\ resp[p].status = 409
        /\ Cardinality(WithCode(store, Abc)) = 1
        /\ Cardinality(Docs(store)) = 2

\* C3: createShortLink fails with Conflict exactly when its single lookup
\* finds a record with the candidate code; a call that fails with Conflict
\* has made one lookup and no write, keeps its code, and leaves the store and
\* the started increments unchanged; otherwise it goes on to write.
C3_ConflictIffFound ==
    [][\A p \in Slots :
        CreateFind(p) =>
            /\ (resp'[p].status = 409) <=> (WithCode(store, req[p].shortCode) # {})
            /\ req'[p].shortCode = req[p].shortCode
            /\ store' = store
            /\ tasks' = tasks
            /\ ops'[p] = [finds |-> 1, adds |-> 0]
            /\ IF WithCode(store, req[p].shortCode) # {}
               THEN pc'[p] = "done"
               ELSE pc'[p] = "create_add" /\ resp'[p].status = 0]_vars

\* a create with a generated code was refused and one record has the code
C3_GeneratedCodeRefused ==
    \E p \in Slots :
        /\ pc[p] = "done"
        /\ req[p].kind = "create"
        /\ req[p].draw # NoDraw
        /\ resp[p].status = 409
        /\ ops[p] = [finds |-> 1, adds |-> 0]
        /\ Cardinality(WithCode(store, req[p].shortCode)) = 1

\* C4: a createShortLink call whose lookup found no record adds exactly one
\* record, with the custom alias (else the generated code) as shortCode, the
\* request's longUrl and clicks = 0, and returns that record's shortCode,
\* longUrl and clicks with shortUrl = base URL + "/" + shortCode.
C4_CreateAddsTheRecord ==
    [][\A p \in Slots :
        CreateAdd(p) =>
            \E d \in DocIds :
                /\ store[d] = NoDoc
                /\ \A e \in DocIds \ {d} : store'[e] = store[e]
                /\ store'[d] # NoDoc
                /\ store'[d].shortCode =
                      (IF req[p].customAlias.present THEN req[p].customAlias.value
                       ELSE GenerateShortCode(req[p].draw))
                /\ store'[d].longUrl = req[p].longUrl
                /\ store'[d].clicks = 0
                /\ resp'[p].status = 201
                /\ resp'[p].shortCode = store'[d].shortCode
                /\ resp'[p].longUrl = store'[d].longUrl
                /\ resp'[p].clicks = store'[d].clicks
                /\ resp'[p].shortUrl = <<BaseUrl, "/">> \o store'[d].shortCode]_vars

\* both kinds of create have answered: one with the alias "abc", one with a
\* generated code
C4_CreatedBoth ==
    \E p, q \in Slots :
        /\ pc[p] = "done" /\ resp[p].status = 201 /\ resp[p].shortCode = Abc
        /\ pc[q] = "done" /\ resp[q].status = 201 /\ req[q].draw # NoDraw
        /\ WithCode(store, Abc) # {}
        /\ WithCode(store, resp[q].shortCode) # {}

\* ^[A-Za-z0-9_-]{3,50}$
MatchesShortCodeRule(c) ==
    /\ Len(c) >= 3
    /\ Len(c) <= 50
    /\ \A i \in 1..Len(c) : c[i] \in Lower \cup Upper \cup Digits \cup {"_", "-"}

\* C5: for every value the random source can produce, a createShortLink
\* without a custom alias that succeeds returns a shortCode of exactly 6
\* characters that matches ^[A-Za-z0-9_-]{3,50}$.
C5_GeneratedCodeSixChars ==
    \A p \in Slots :
        (/\ pc[p] = "done"
         /\ req[p].kind = "create"
         /\ req[p].draw # NoDraw
         /\ resp[p].status = 201)
        => /\ Len(resp[p].shortCode) = 6
           /\ MatchesShortCodeRule(resp[p].shortCode)

\* a customAlias that is shorter than 3, longer than 50 or has a character
\* outside [A-Za-z0-9_-]
AliasBreaksRule(a) ==
    /\ a.present
    /\ \/ Len(a.value) < 3
       \/ Len(a.value) > 50
       \/ \E i \in 1..Len(a.value) :
            a.value[i] \notin Lower \cup Upper \cup Digits \cup {"_", "-"}

AliasAtLengthLimit(a) ==
    /\ a.present
    /\ Len(a.value) \in {3, 50}
    /\ \A i \in 1..Len(a.value) :
            a.value[i] \in Lower \cup Upper \cup Digits \cup {"_", "-"}

\* C6: a POST /shorten whose customAlias breaks the length or charset rule
\* is answered 400 without the store being queried or written (the request
\* ends there, having made no lookup and no write, and the store and the
\* started increments are unchanged); an alias of length 3 or 50 over the
\* charset, sent with a valid longUrl, passes validation and reaches the
\* service's lookup.
C6_InvalidAliasRejectedBeforeStore ==
    /\ [][\A p \in Slots : \A in \in CreateInputs : \A k \in RandomDraws \cup {NoDraw} :
            PostShortenWith(p, in, k) =>
                /\ AliasBreaksRule(in.customAlias) =>
                      /\ resp'[p].status = 400
                      /\ pc'[p] = "done"
                      /\ ops'[p] = NoOps
                      /\ store' = store
                      /\ tasks' = tasks
                /\ (AliasAtLengthLimit(in.customAlias) /\ in.longUrl \in {UrlA, UrlB}) =>
                      /\ resp'[p].status = 0
                      /\ pc'[p] = "create_find"]_vars
    /\ [](\A p \in Slots : resp[p].status = 400 => pc[p] = "done" /\ ops[p] = NoOps)

\* an alias that is too long was refused while the store held a record
C6_LongAliasRefused ==
    \E p \in Slots :
        /\ req[p].kind = "create"
        /\ resp[p].status = 400
        /\ resp[p].errors = {"customAlias maxLength"}
        /\ ops[p] = NoOps
        /\ Docs(store) # {}

\* a longUrl with a scheme and a host
WellFormedAbsoluteUrl(u) == u.protocol # "" /\ u.host # <<>>

\* C7: a create request whose longUrl is not a well-formed absolute URL with
\* a scheme is answered 400 before reaching the service: no lookup, no write,
\* the stored records are the same after the request as before.
C7_InvalidUrlRejected ==
    /\ [][\A p \in Slots : \A in \in CreateInputs : \A k \in RandomDraws \cup {NoDraw} :
            (PostShortenWith(p, in, k) /\ ~WellFormedAbsoluteUrl(in.longUrl)) =>
                /\ resp'[p].status = 400
                /\ "longUrl isUrl" \in resp'[p].errors
                /\ pc'[p] = "done"
                /\ ops'[p] = NoOps
                /\ store' = store]_vars
    /\ [](\A p \in Slots :
            "longUrl isUrl" \in resp[p].errors => pc[p] = "done" /\ ops[p] = NoOps)

\* a longUrl was refused while the store held a record
C7_UrlRefused ==
    \E p \in Slots :
        /\ req[p].kind = "create"
        /\ resp[p].status = 400
        /\ resp[p].errors = {"longUrl isUrl"}
        /\ ops[p] = NoOps
        /\ Docs(store) # {}

\* C8: getLongUrl on a code that no record has fails with Not-Found, starts
\* no click increment and leaves every record unchanged.
C8_UnknownCodeNotFound ==
    [][\A p \in Slots :
        (RedirectFind(p) /\ WithCode(store, req[p].shortCode) = {}) =>
            /\ resp'[p].status = 404
            /\ resp'[p].longUrl = NoUrl
            /\ tasks' = tasks
            /\ store' = store
            /\ pc'[p] = "done"]_vars

\* a redirect of a code no record has was answered 404 while the store held
\* a record of another code
C8_RedirectMissed ==
    \E p \in Slots :
        /\ pc[p] = "done"
        /\ req[p].kind = "redirect"
        /\ resp[p].status = 404
        /\ WithCode(store, req[p].shortCode) = {}
        /\ Docs(store) # {}
        /\ tasks = <<>>

\* the clicks recorded for a code, over all the records that have it
RECURSIVE SumClicks(_, _)
SumClicks(s, ds) ==
    IF ds = {} THEN 0
    ELSE LET d == CHOOSE e \in ds : TRUE IN s[d].clicks + SumClicks(s, ds \ {d})

TotalClicks(c) == SumClicks(store, WithCode(store, c))

\* C9: getLongUrl on a known code answers with the longUrl of a record that
\* has the code and starts one increment; every started increment ends,
\* applied or failed; and the clicks of a code are exactly the number of its
\* increments that were applied: each call adds 1 once its increment has been
\* applied, never more, and nothing when it failed.
C9_RedirectCountsOnce ==
    /\ [][\A p \in Slots :
            (RedirectFind(p) /\ WithCode(store, req[p].shortCode) # {}) =>
                /\ resp'[p].status = 302
                /\ \E d \in WithCode(store, req[p].shortCode) :
                        resp'[p].longUrl = store[d].longUrl
                /\ Len(tasks') = Len(tasks) + 1
                /\ tasks'[Len(tasks')].code = req[p].shortCode
                /\ \A i \in DOMAIN tasks : tasks'[i] = tasks[i]]_vars
    /\ [](\A d \in Docs(store) :
            TotalClicks(store[d].shortCode) = Cardinality(Applied(store[d].shortCode)))
    /\ \A i \in TaskIds :
            (i \in DOMAIN tasks) ~> (i \in DOMAIN tasks /\ tasks[i].stage \in {"done", "failed"})

\* two redirects of one code have both been counted
C9_TwoClicksCounted ==
    \E d \in Docs(store) :
        /\ store[d].clicks = 2
        /\ Cardinality(Applied(store[d].shortCode)) = 2

\* the case of C10: one record has the code, a details request for it
\* arrived after exactly one redirect of it had been answered 302, and no
\* other redirect of it has been answered since
AfterOneRedirect(p) ==
    /\ Cardinality(WithCode(store, req[p].shortCode)) = 1
    /\ req[p].seen = 1
    /\ Cardinality(TasksOf(req[p].shortCode)) = 1

\* C10 as stated: after a link was created and one GET /{shortCode} has
\* returned its 302, a getShortLinkDetails call issued after that response
\* returns clicks = 1.
C10_DetailsAfterRedirectIsOne ==
    [][\A p \in Slots :
        (DetailsFind(p) /\ AfterOneRedirect(p)) => resp'[p].clicks = 1]_vars

\* C10 amended: such a call returns clicks = 1 if the redirect's increment
\* had been applied when the call's lookup ran, and clicks = 0 otherwise
\* (the increment still pending, or failed).
C10_DetailsAfterRedirectIsApplied ==
    [][\A p \in Slots :
        (DetailsFind(p) /\ AfterOneRedirect(p)) =>
            /\ resp'[p].status = 200
            /\ resp'[p].clicks =
                  (IF \E i \in TasksOf(req[p].shortCode) : tasks[i].stage = "done"
                   THEN 1 ELSE 0)]_vars

\* a details call issued after the one redirect returned clicks = 1
C10_DetailsSawTheClick ==
    \E p \in Slots :
        /\ pc[p] = "done"
        /\ req[p].kind = "details"
        /\ resp[p].status = 200
        /\ resp[p].clicks = 1
        /\ Cardinality(TasksOf(req[p].shortCode)) = 1
        /\ Cardinality(WithCode(store, req[p].shortCode)) = 1

\* C11: getLongUrl on a known code answers with the longUrl while the
\* increment it started has not run yet (it is not awaited); when an
\* increment fails, no response, no request and no record changes (the
\* caller keeps its 302, clicks stays as it was), and the failed increment
\* is never run again.
C11_RedirectDoesNotWait ==
    /\ [][\A p \in Slots :
            (RedirectFind(p) /\ WithCode(store, req[p].shortCode) # {}) =>
                /\ resp'[p].status = 302
                /\ resp'[p].longUrl = FindByShortCode(store, req[p].shortCode).longUrl
                /\ pc'[p] = "done"
                /\ tasks'[Len(tasks')] = Task(req[p].shortCode, "query", 0)
                /\ store' = store]_vars
    /\ [][\A i \in DOMAIN tasks :
            (tasks[i].stage # "failed" /\ tasks'[i].stage = "failed") =>
                /\ store' = store
                /\ resp' = resp
                /\ pc' = pc
                /\ Len(tasks') = Len(tasks)]_vars
    /\ [][\A i \in DOMAIN tasks :
            tasks[i].stage = "failed" => tasks'[i] = tasks[i]]_vars

\* a redirect was answered 302, its increment failed, and the record still
\* has clicks = 0
C11_IncrementFailedAfterRedirect ==
    \E p \in Slots : \E i \in DOMAIN tasks : \E d \in Docs(store) :
        /\ pc[p] = "done"
        /\ req[p].kind = "redirect"
        /\ resp[p].status = 302
        /\ resp[p].longUrl = store[d].longUrl
        /\ tasks[i].code = req[p].shortCode
        /\ tasks[i].stage = "failed"
        /\ store[d].shortCode = req[p].shortCode
        /\ store[d].clicks = 0

\* C12: no update is lost: every applied increment adds exactly 1 to its
\* record whatever other increments are in progress, so when one record has
\* a code and all the increments started by the redirects of that code have
\* been applied, the record's clicks is the number of those redirects.
C12_NoLostUpdate ==
    /\ [][\A i \in TaskIds :
            IncUpdate(i) =>
                store'[tasks[i].doc].clicks = store[tasks[i].doc].clicks + 1]_vars
    /\ [](\A d \in Docs(store) :
            (/\ Cardinality(WithCode(store, store[d].shortCode)) = 1
             /\ \A i \in TasksOf(store[d].shortCode) : tasks[i].stage = "done")
            => store[d].clicks = Cardinality(TasksOf(store[d].shortCode)))

\* two redirects of one code, handled at the same time, have both been counted
C12_ConcurrentRedirectsCounted ==
    \E p, q \in Slots : \E d \in Docs(store) :
        /\ p # q
        /\ pc[p] = "done" /\ req[p].kind = "redirect" /\ resp[p].status = 302
        /\ pc[q] = "done" /\ req[q].kind = "redirect" /\ resp[q].status = 302
        /\ req[p].shortCode = req[q].shortCode
        /\ WithCode(store, req[p].shortCode) = {d}
        /\ \A i \in TasksOf(req[p].shortCode) : tasks[i].stage = "done"
        /\ store[d].clicks = 2

\* C13: in every step each record's clicks stays the same or grows by
\* exactly 1, and it grows only in the update step of an incrementClicks for
\* that record; create, the lookups of createShortLink and getLongUrl, and
\* getShortLinkDetails leave the clicks of every record as they were.
C13_ClicksOnlyIncrement ==
    /\ [][\A d \in Docs(store) :
            /\ store'[d].clicks \in {store[d].clicks, store[d].clicks + 1}
            /\ store'[d].clicks # store[d].clicks =>
                  \E i \in DOMAIN tasks :
                      /\ tasks[i].stage = "update"
                      /\ tasks[i].doc = d
                      /\ tasks'[i].stage = "done"]_vars
    /\ [][\A p \in Slots :
            (CreateFind(p) \/ CreateAdd(p) \/ RedirectFind(p) \/ DetailsFind(p)) =>
                \A d \in Docs(store) : store'[d].clicks = store[d].clicks]_vars

\* a record was created after another one had been clicked
C13_CreateAfterClick ==
    \E d1, d2 \in Docs(store) :
        /\ store[d1].clicks = 1
        /\ store[d2].clicks = 0
        /\ store[d2].createdAt > store[d1].createdAt

\* C14: a record, once created, stays in the store, and its longUrl,
\* shortCode, createdAt and creatorIp never change, whatever create,
\* redirect, details and increment steps are taken.
C14_RecordsKeptAndFrozen ==
    [][\A d \in Docs(store) :
        /\ store'[d] # NoDoc
        /\ store'[d].longUrl = store[d].longUrl
        /\ store'[d].shortCode = store[d].shortCode
        /\ store'[d].createdAt = store[d].createdAt
        /\ store'[d].creatorIp = store[d].creatorIp]_vars

\* the second client's record was clicked and then read by a details call
C14_ClickedRecordRead ==
    \E p \in Slots : \E d \in Docs(store) :
        /\ store[d] = ShortLink(UrlB, Abc, 0, 1, "10.0.0.2")
        /\ pc[p] = "done"
        /\ req[p].kind = "details"
        /\ resp[p].status = 200
        /\ resp[p].longUrl = UrlB

\* C15: getShortLinkDetails fails with Not-Found when no record has the
\* code; otherwise it returns the shortCode, longUrl, createdAt and clicks of
\* a record that has the code, as they are stored when the lookup runs (of
\* the first such record), with shortUrl = base URL + "/" + shortCode.
C15_DetailsMatchRecord ==
    [][\A p \in Slots :
        DetailsFind(p) =>
            IF WithCode(store, req[p].shortCode) = {}
            THEN resp'[p] = ErrorResponse(404, {})
            ELSE \E d \in WithCode(store, req[p].shortCode) :
                    /\ \A e \in WithCode(store, req[p].shortCode) : d <= e
                    /\ resp'[p].status = 200
                    /\ resp'[p].shortCode = store[d].shortCode
                    /\ resp'[p].longUrl = store[d].longUrl
                    /\ resp'[p].createdAt = store[d].createdAt
                    /\ resp'[p].clicks = store[d].clicks
                    /\ resp'[p].shortUrl = <<"http://localhost:3000", "/">> \o req[p].shortCode]_vars

\* one details call found its record and another one found none
C15_DetailsFoundAndMissed ==
    \E p, q \in Slots :
        /\ pc[p] = "done" /\ req[p].kind = "details" /\ resp[p].status = 200
        /\ resp[p].shortCode = req[p].shortCode
        /\ pc[q] = "done" /\ req[q].kind = "details" /\ resp[q].status = 404
        /\ WithCode(store, req[q].shortCode) = {}

\* the addresses requests come from
Ips == {"10.0.0.1", "10.0.0.2"}

\* a record, and a collection, as they would be had every create come from ip
SetIp(doc, ip) == IF doc = NoDoc THEN NoDoc ELSE [doc EXCEPT !.creatorIp = ip]

StoreWithIp(s, ip) == [d \in DocIds |-> SetIp(s[d], ip)]

\* C16: creatorIp is never exposed: every step answers, starts increments
\* and changes the records exactly as it would had every create come from
\* any other address, so two executions that issue the same requests and
\* differ only in the captured addresses give the same responses from
\* POST /shorten, GET /:shortCode and GET /api/links/:shortCode, Conflict and
\* Not-Found included.
C16_CreatorIpNotExposed ==
    [][\A ip \in Ips :
        /\ \A p \in Slots : \A in \in CoreCreateInputs : \A k \in CoreDraws \cup {NoDraw} :
            PostShortenWith(p, in, k) =>
                resp'[p] =
                    (IF ValidateCreateDto([longUrl |-> in.longUrl, customAlias |-> in.customAlias])
                     THEN NoResp
                     ELSE ErrorResponse(400, CreateDtoErrors(
                            [longUrl |-> in.longUrl, customAlias |-> in.customAlias])))
        /\ \A p \in Slots :
            CreateFind(p) =>
                resp'[p] =
                    (IF FindByShortCode(StoreWithIp(store, ip), req[p].shortCode) # NoDoc
                     THEN ErrorResponse(409, {})
                     ELSE resp[p])
        /\ \A p \in Slots :
            CreateAdd(p) =>
                /\ resp'[p] = BuildResponse(201, SetIp(req[p].shortLink, ip))
                /\ \E d \in DocIds :
                    StoreWithIp(store', ip)
                        = Create(StoreWithIp(store, ip), d, SetIp(req[p].shortLink, ip))
        /\ \A p \in Slots :
            RedirectFind(p) =>
                LET shortLink == FindByShortCode(StoreWithIp(store, ip), req[p].shortCode) IN
                    /\ resp'[p] = (IF shortLink = NoDoc THEN ErrorResponse(404, {})
                                   ELSE RedirectResponse(shortLink.longUrl))
                    /\ tasks' = tasks \o StartedIncrements(shortLink, req[p].shortCode)
        /\ \A p \in Slots :
            DetailsFind(p) =>
                LET shortLink == FindByShortCode(StoreWithIp(store, ip), req[p].shortCode) IN
                    resp'[p] = (IF shortLink = NoDoc THEN ErrorResponse(404, {})
                                ELSE BuildResponse(200, shortLink))
        /\ \A i \in TaskIds :
            IncQuery(i) =>
                LET results == Query(StoreWithIp(store, ip), tasks[i].code) IN
                    tasks'[i] = (IF results # {} THEN Task(tasks[i].code, "update", First(results))
                                 ELSE Task(tasks[i].code, "done", 0))
        /\ \A i \in TaskIds :
            IncUpdate(i) =>
                StoreWithIp(store', ip) = UpdateIncrement(StoreWithIp(store, ip), tasks[i].doc)]_vars

\* the record was created from the second address; a create of its code was
\* answered 409 and a details call 200
C16_AnsweredAboutOtherClient ==
    \E p, q \in Slots : \E d \in Docs(store) :
        /\ store[d].creatorIp = "10.0.0.2"
        /\ pc[p] = "done" /\ req[p].kind = "details" /\ resp[p].status = 200
        /\ resp[p].shortCode = store[d].shortCode
        /\ pc[q] = "done" /\ req[q].kind = "create" /\ resp[q].status = 409
        /\ req[q].shortCode = store[d].shortCode

\* an earlier details call q for the code that p asks about, answered with
\* a summary and still remembered: under SpecDetails no redirect of the code
\* was issued between the two calls
EarlierDetails(q, p) ==
    /\ q # p
    /\ pc[q] = "done"
    /\ req[q].kind = "details"
    /\ resp[q].status = 200
    /\ req[q].shortCode = req[p].shortCode

\* C17 as stated: repeated getShortLinkDetails calls for the same code
\* return identical clicks whenever no redirect request for that code is
\* issued between the calls.
C17_DetailsRepeatSameClicks ==
    [][\A p, q \in Slots :
        (DetailsFind(p) /\ EarlierDetails(q, p)) =>
            resp'[p].clicks = resp[q].clicks]_vars

\* C17 amended: they return identical clicks whenever no redirect request
\* for that code is issued between the calls, no increment started by an
\* earlier redirect of the code is applied between the two lookups, and one
\* record has the code.
C17_DetailsRepeatWhenSettled ==
    [][\A p, q \in Slots :
        (/\ DetailsFind(p)
         /\ EarlierDetails(q, p)
         /\ req[q].applied = Cardinality(Applied(req[p].shortCode))
         /\ Cardinality(WithCode(store, req[p].shortCode)) = 1) =>
            /\ resp'[p].status = 200
            /\ resp'[p].clicks = resp[q].clicks]_vars

\* two details calls, both made after the one click was counted, returned
\* clicks = 1
C17_TwoDetailsAgree ==
    \E p, q \in Slots :
        /\ p # q
        /\ pc[p] = "done" /\ req[p].kind = "details" /\ resp[p].status = 200
        /\ pc[q] = "done" /\ req[q].kind = "details" /\ resp[q].status = 200
        /\ req[p].shortCode = req[q].shortCode
        /\ req[p].applied = 1 /\ req[q].applied = 1
        /\ resp[p].clicks = 1 /\ resp[q].clicks = 1

\* what the lookup of a GET request answers: 404 when no record has the
\* code, otherwise 302 with the longUrl of the first record that has it
\* (GET /:shortCode) or 200 (GET /api/links/:shortCode)
LookupAnswers(p) ==
    /\ RedirectFind(p) =>
          IF WithCode(store, req[p].shortCode) = {}
          THEN resp'[p].status = 404
          ELSE /\ resp'[p].status = 302
               /\ \E d \in WithCode(store, req[p].shortCode) :
                    /\ \A e \in WithCode(store, req[p].shortCode) : d <= e
                    /\ resp'[p].longUrl = store[d].longUrl
    /\ DetailsFind(p) =>
          resp'[p].status = (IF WithCode(store, req[p].shortCode) = {} THEN 404 ELSE 200)

\* C18 as stated: for every code that no stored record has, GET /:shortCode
\* and GET /api/links/:shortCode respond 404; for every code that a record
\* has, GET /:shortCode responds 302 with that record's longUrl and
\* GET /api/links/:shortCode responds 200: a request is answered by its
\* lookup, never before.
C18_EveryCodeLookedUp ==
    [][\A p \in Slots :
        /\ \A code \in ParamInputs :
            (GetRedirectWith(p, code) \/ GetLinkDetailsWith(p, code)) =>
                /\ resp'[p].status = 0
                /\ pc'[p] \in {"redirect_find", "details_find"}
        /\ LookupAnswers(p)]_vars

\* C18 amended: that holds for the codes that match ^[A-Za-z0-9_-]{3,50}$;
\* for any other code both endpoints respond 400 without a lookup, also when
\* a record has the code.
C18_ValidCodeLookedUp ==
    [][\A p \in Slots :
        /\ \A code \in ParamInputs :
            (GetRedirectWith(p, code) \/ GetLinkDetailsWith(p, code)) =>
                IF MatchesShortCodeRule(code)
                THEN /\ resp'[p].status = 0
                     /\ pc'[p] \in {"redirect_find", "details_find"}
                     /\ req'[p].shortCode = code
                ELSE /\ resp'[p].status = 400
                     /\ pc'[p] = "done"
                     /\ ops'[p] = NoOps
                     /\ tasks' = tasks
        /\ LookupAnswers(p)]_vars

\* a redirect was answered 400 for its code's length while a record with a
\* code that short is stored
C18_ShortStoredCodeRefused ==
    \E d \in Docs(store) :
        /\ Len(store[d].shortCode) < 3
        /\ pc[1] = "done"
        /\ req[1].kind = "redirect"
        /\ resp[1].status = 400
        /\ resp[1].errors = {"shortCode minLength"}

\* C19: the client's validator mirrors the server's alias rule: for every
\* customAlias (absent and the empty string included), sent with a longUrl
\* both sides take, validateCreateShortLink accepts the input if and only if
\* the server's CreateShortLinkDto validation accepts it, which is when the
\* alias is absent or has 3 to 50 characters from [A-Za-z0-9_-].
C19_ClientMirrorsAliasRule ==
    (client.stage = "validated" /\ client.longUrl \in {UrlA, UrlB}) =>
        /\ client.success
              <=> ValidateCreateDto([longUrl |-> client.longUrl,
                                     customAlias |-> client.customAlias])
        /\ client.success
              <=> (~client.customAlias.present
                   \/ MatchesShortCodeRule(client.customAlias.value))
        /\ client.success <=> (client.error = "")

\* the empty alias was refused by the client's validator
C19_EmptyAliasRefused ==
    /\ client.stage = "validated"
    /\ client.longUrl = UrlA
    /\ client.customAlias = Alias(<<>>)
    /\ ~client.success
    /\ client.error = "Custom alias must be at least 3 characters long"

\* C20: incrementClicks(code) is a no-op when no record has the code: its
\* query leaves every record as it is and the call ends without an error and
\* without an update; when a record has the code, the call goes on to update
\* one record that has it, and the update adds 1 to the clicks of that
\* record and changes nothing else.
C20_IncrementOneOrNone ==
    /\ [][\A i \in TaskIds :
            IncQuery(i) =>
                /\ store' = store
                /\ IF WithCode(store, tasks[i].code) = {}
                   THEN tasks'[i] = Task(tasks[i].code, "done", 0)
                   ELSE /\ tasks'[i].stage = "update"
                        /\ tasks'[i].doc \in WithCode(store, tasks[i].code)]_vars
    /\ [][\A i \in TaskIds :
            IncUpdate(i) =>
                \E d \in WithCode(store, tasks[i].code) :
                    /\ store'[d] = [store[d] EXCEPT !.clicks = store[d].clicks + 1]
                    /\ \A e \in DocIds \ {d} : store'[e] = store[e]
                    /\ tasks'[i].stage = "done"
                    /\ <<pc, req, resp, ops>>' = <<pc, req, resp, ops>>]_vars
    /\ [][\A i \in DOMAIN tasks : tasks[i].stage = "done" => tasks'[i] = tasks[i]]_vars

\* a call for a code no record has ended without an update, and a call for
\* a code two records have counted one click on one of them
C20_NoOpAndOneOfTwo ==
    \E i, j \in DOMAIN tasks : \E d1, d2 \in Docs(store) :
        /\ tasks[i].stage = "done"
        /\ tasks[i].doc = 0
        /\ WithCode(store, tasks[i].code) = {}
        /\ tasks[j].stage = "done"
        /\ WithCode(store, tasks[j].code) = {d1, d2}
        /\ store[d1].clicks = 1
        /\ store[d2].clicks = 0

\* the codes created or requested where requests run concurrently
CoreCodes == CoreParamInputs \cup {<<"a", "b">>}

\* the create calls for c whose lookup found no record: those that have
\* written their record and those about to write it
Passed(s, c) ==
    Cardinality(WithCode(s, c))
        + Cardinality({p \in Slots : pc[p] = "create_add" /\ req[p].shortCode = c})

PassedNext(s, c) ==
    Cardinality(WithCode(s, c))
        + Cardinality({p \in Slots : pc'[p] = "create_add" /\ req'[p].shortCode = c})

\* C21: the duplicate-write race is confined to the check-to-write window:
\* a createShortLink call whose lookup runs when a record with its code has
\* been written answers Conflict and never adds a record; the create calls
\* for c that pass their lookup grow in number only while no record with
\* code c is written, and the records with code c are never more than they.
C21_RaceOnlyBeforeFirstWrite ==
    /\ [][\A p \in Slots :
            (CreateFind(p) /\ WithCode(store, req[p].shortCode) # {}) =>
                /\ pc'[p] = "done"
                /\ resp'[p].status = 409
                /\ store' = store]_vars
    /\ [][\A c \in CoreCodes :
            /\ PassedNext(store', c) > Passed(store, c) => WithCode(store, c) = {}
            /\ PassedNext(store', c) >= Passed(store, c)
            /\ Cardinality(WithCode(store', c)) <= PassedNext(store', c)]_vars

\* two creates raced and both wrote the alias "abc"; a third create of it,
\* which looked the alias up after the first write, was answered 409
C21_LateCreateRefused ==
    \E p \in Slots :
        /\ pc[p] = "done"
        /\ req[p].kind = "create"
        /\ req[p].shortCode = Abc
        /\ resp[p].status = 409
        /\ Cardinality(WithCode(store, Abc)) = 2

\* C22: for every code c, the sum of clicks over the records with
\* shortCode c is at most the number of getLongUrl(c) calls that have found
\* a record so far (each started one increment), and equals it once every
\* started increment has completed without failure.
C22_ClicksBoundedByRedirects ==
    \A c \in CoreCodes :
        /\ TotalClicks(c) <= Cardinality(TasksOf(c))
        /\ (\A i \in TasksOf(c) : tasks[i].stage = "done")
              => TotalClicks(c) = Cardinality(TasksOf(c))

\* two records have the alias "abc" and the one redirect of it was counted
C22_OneClickOverTwoRecords ==
    /\ Cardinality(WithCode(store, Abc)) = 2
    /\ Cardinality(TasksOf(Abc)) = 1
    /\ \A i \in TasksOf(Abc) : tasks[i].stage = "done"
    /\ TotalClicks(Abc) = 1

\* C23: the click increment started by a successful getLongUrl(c) is
\* applied to the record whose longUrl was returned to that caller, also
\* when several records have code c: where one redirect of c has been
\* answered, its increment resolves to a record with the longUrl answered.
C23_IncrementHitsServedRecord ==
    \A p \in Slots : \A i \in DOMAIN tasks :
        (/\ pc[p] = "done"
         /\ req[p].kind = "redirect"
         /\ resp[p].status = 302
         /\ Cardinality(TasksOf(req[p].shortCode)) = 1
         /\ tasks[i].code = req[p].shortCode
         /\ tasks[i].stage \in {"update", "done"})
        => store[tasks[i].doc].longUrl = resp[p].longUrl

\* C24: every link that was created can be followed: a GET /c for a code c
\* that a created record has passes the ShortCodeParamDto validation and is
\* answered 302, never 400 and never 404.
C24_CreatedLinkFollowed ==
    [][\A p \in Slots :
        /\ \A code \in ParamInputs :
            (GetRedirectWith(p, code) /\ WithCode(store, code) # {}) =>
                /\ pc'[p] = "redirect_find"
                /\ resp'[p].status = 0
        /\ (RedirectFind(p) /\ WithCode(store, req[p].shortCode) # {}) =>
                resp'[p].status = 302]_vars

\* C25: getShortLinkDetails is read-only: whether it answers with a summary
\* or with Not-Found, no record is added, no field of any record changes and
\* no click increment is started; so it is from the arrival of the request.
C25_DetailsReadOnly ==
    [][\A p \in Slots :
        /\ DetailsFind(p) =>
            /\ store' = store
            /\ tasks' = tasks
            /\ resp'[p].status \in {200, 404}
            /\ ops'[p] = [finds |-> 1, adds |-> 0]
        /\ \A code \in CoreParamInputs :
            GetLinkDetailsWith(p, code) => store' = store /\ tasks' = tasks]_vars

\* a details call returned a summary and another one Not-Found, and the one
\* record is as it was created, no increment started
C25_DetailsLeftNoTrace ==
    \E p, q \in Slots : \E d \in DocIds :
        /\ pc[p] = "done" /\ req[p].kind = "details" /\ resp[p].status = 200
        /\ pc[q] = "done" /\ req[q].kind = "details" /\ resp[q].status = 404
        /\ Docs(store) = {d}
        /\ store[d].clicks = 0
        /\ tasks = <<>>

\* C26: in the useLinkShortener hook, when validation of the input fails,
\* createShortLink sends no request, calls onError once with the validation
\* message, never calls onSuccess, returns null and does not touch
\* isSubmitting, which is false unless a request of another call is pending;
\* and such a call stays as it returned.
C26_InvalidInputNotSent ==
    /\ [][\A input \in HookInputs :
            (CreateShortLinkWith(input) /\ ~ValidateCreateShortLink(input).success) =>
                LET c == hook'.calls[Len(hook'.calls)] IN
                /\ c.stage = "returned"
                /\ c.sent = 0
                /\ c.onError = 1
                /\ c.message = ValidateCreateShortLink(input).error
                /\ c.onSuccess = 0
                /\ c.result = "null"
                /\ hook'.isSubmitting = hook.isSubmitting
                /\ Pending(hook') = Pending(hook)
                /\ Pending(hook) = {} => ~hook'.isSubmitting]_vars
    /\ [](\A c \in DOMAIN hook.calls :
            ~ValidateCreateShortLink(hook.calls[c].input).success =>
                /\ hook.calls[c].sent = 0
                /\ hook.calls[c].onSuccess = 0
                /\ hook.calls[c].onError = 1
                /\ hook.calls[c].result = "null")

\* a call with an alias the validator refuses has returned, nothing is
\* pending and isSubmitting is false
C26_InvalidCallReturned ==
    \E c \in DOMAIN hook.calls :
        /\ ~ValidateCreateShortLink(hook.calls[c].input).success
        /\ hook.calls[c].input.customAlias = Alias(<<" ", "a", "b">>)
        /\ hook.calls[c].stage = "returned"
        /\ hook.calls[c].message =
              "Custom alias can only contain letters, numbers, hyphens, and underscores"
        /\ Pending(hook) = {}
        /\ ~hook.isSubmitting

\* C27: every call of createShortLink that has completed invoked exactly one
\* of onSuccess and onError, once: onSuccess, returning the link, when the
\* request succeeded; onError, returning null, when validation or the request
\* failed; no call rejected, and a call not completed has invoked neither.
C27_OneCallbackPerCall ==
    \A c \in DOMAIN hook.calls :
        LET call == hook.calls[c]
            valid == ValidateCreateShortLink(call.input).success IN
        /\ call.result # "rejected"
        /\ call.stage = "pending" => call.onSuccess = 0 /\ call.onError = 0
        /\ call.stage = "returned" =>
            /\ call.onSuccess + call.onError = 1
            /\ (valid /\ call.outcome = "created")
                  <=> (call.onSuccess = 1 /\ call.result = "link")
            /\ (~valid \/ call.outcome \in {"refused", "failed"})
                  <=> (call.onError = 1 /\ call.result = "null")

\* three calls have completed: one succeeded, one was refused by the
\* server, one failed validation
C27_ThreeWaysCompleted ==
    \E a, b, c \in DOMAIN hook.calls :
        /\ hook.calls[a].result = "link"
        /\ hook.calls[b].outcome = "refused" /\ hook.calls[b].message = ConflictMessage
        /\ hook.calls[c].sent = 0 /\ hook.calls[c].stage = "returned"

\* C28: in the useLinkShortener hook, isSubmitting is true in every state
\* in which a request started by createShortLink has not settled, also when
\* two calls overlap, and false once all started requests have settled.
C28_SubmittingWhilePending ==
    hook.isSubmitting <=> Pending(hook) # {}

\* C29: ClipboardButton shows the success state only after a successful
\* clipboard write and always reverts: a successful write sets isCopied and a
\* timer due successDuration later; the timer's callback runs when that time
\* has elapsed and sets isCopied false; isCopied true always leads to isCopied
\* false; a failed write calls onCopyError and does not set isCopied; a click
\* while disabled or while isCopied is true starts no clipboard write.
C29_CopiedShownThenReverts ==
    /\ [](button.isCopied =>
            /\ button.onCopySuccess > 0
            /\ Waiting(button) # {})
    /\ [](\A t \in Waiting(button) : button.timers[t].due >= button.now)
    /\ [][\A w \in Writes :
            /\ WriteResolve(w) =>
                /\ button'.isCopied
                /\ Len(button'.timers) = Len(button.timers) + 1
                /\ button'.timers[Len(button'.timers)] = Timer(button.now + SuccessDuration)
            /\ WriteReject(w) =>
                /\ button'.isCopied = button.isCopied
                /\ button'.onCopyError = button.onCopyError + 1
                /\ button'.onCopySuccess = button.onCopySuccess
                /\ button.onCopySuccess = 0 => ~button'.isCopied
            /\ TimerFire(w) =>
                /\ ~button'.isCopied
                /\ button.now = button.timers[w].due]_vars
    /\ [][(HandleCopy /\ (button.disabled \/ button.isCopied)) =>
            button'.writes = button.writes]_vars
    /\ (button.isCopied ~> ~button.isCopied)

\* a copy succeeded and its success state has reverted after its timer, a
\* click while the success state was shown or the button disabled started no
\* write, and a later write failed
C29_CopiedRevertedThenFailed ==
    /\ ~button.isCopied
    /\ button.onCopySuccess = 1
    /\ button.onCopyError = 1
    /\ button.clicked = 3
    /\ Len(button.writes) = 2
    /\ button.writes[2] = "failed"
    /\ button.now = SuccessDuration
    /\ Waiting(button) = {}

====
